---- MODULE Spec2Model ----
(***************************************************************************)
(* The client of the SIWE notepad (src/src/providers.ts) as a state        *)
(* machine: the page's DOM and window state, the wallet provider handle,   *)
(* and every asynchronous flow the module starts (the bootstrap GET        *)
(* /api/me, the sign-in attempts, the sign-out and the save requests).     *)
(* JavaScript runs one handler at a time, so every action below is one     *)
(* handler, or the part of an async function between two awaits.           *)
(***************************************************************************)
EXTENDS Integers, Sequences, FiniteSets, Bags, TLC

\* Bound of the model: how many requests and sign-in attempts (other than the
\* bootstrap request) may be in flight together.
MaxInFlight == 2

\* providers.ts:186, the size bound of a save.
MaxPayloadBytes == 43610

(***************************************************************************)
(* Strings.  A text is a sequence of runs [cls, n]: n characters of one    *)
(* class.  The classes are those JSON.stringify and UTF-8 tell apart.      *)
(*   ascii    printable ASCII other than the quote and the backslash      *)
(*   quote    the quote or the backslash          (escaped as 2 chars)    *)
(*   newline  \b \t \n \f \r                      (escaped as 2 chars)    *)
(*   control  another character below U+0020      (escaped as \u00XX)     *)
(*   latin    U+0080..U+07FF                      (2 bytes of UTF-8)      *)
(*   bmp      U+0800..U+FFFF, no surrogate        (3 bytes of UTF-8)      *)
(*   astral   a surrogate pair, 2 UTF-16 units    (4 bytes of UTF-8)      *)
(***************************************************************************)
Run(cls, n) == [cls |-> cls, n |-> n]

TextEmpty == << >>

TextHello == << Run("ascii", 5) >>

\* 43,599 bytes once escaped: {"text":"..."} is 43,610 bytes, the bound itself.
TextAtLimit == << Run("ascii", 43590), Run("quote", 3), Run("bmp", 1) >>

\* One character more: 43,611 bytes, although only 43,609 UTF-16 units.
TextOverLimit == << Run("ascii", 43591), Run("quote", 3), Run("bmp", 1) >>

\* What the user may type into the notepad.
Texts == { TextEmpty, TextHello, TextAtLimit, TextOverLimit }

\* What the backend may return as the stored document.
ServerTexts == { TextEmpty, TextHello }

\* JSON.stringify's escaping of the characters of a string value.
EscapeRun(r) ==
  CASE r.cls \in {"quote", "newline"} -> Run("ascii", 2 * r.n)
    [] r.cls = "control" -> Run("ascii", 6 * r.n)
    [] OTHER -> r

\* JSON.stringify({ text }): {"text":" (9 characters), the escaped value, "}.
JSONstringify(text) ==
  << Run("ascii", 9) >> \o [i \in 1..Len(text) |-> EscapeRun(text[i])]
                        \o << Run("ascii", 2) >>

Utf8Bytes(cls) ==
  CASE cls = "latin" -> 2
    [] cls = "bmp" -> 3
    [] cls = "astral" -> 4
    [] OTHER -> 1

RECURSIVE byteLength(_)
\* Buffer.byteLength(s): the length of s in UTF-8.
byteLength(s) ==
  IF s = << >> THEN 0
  ELSE Head(s).n * Utf8Bytes(Head(s).cls) + byteLength(Tail(s))

RECURSIVE length(_)
\* s.length: the length of s in UTF-16 code units.
length(s) ==
  IF s = << >> THEN 0
  ELSE Head(s).n * (IF Head(s).cls = "astral" THEN 2 ELSE 1) + length(Tail(s))

(***************************************************************************)
(* The page.                                                               *)
(***************************************************************************)
Undefined == "undefined"
Null == "null"

\* The one wallet address and the one ENS name of the model.
Address == "0xABC"
EnsName == "alice.eth"

UnsavedMark == "- (***Unsaved Changes***)"

VARIABLES
  dom,            \* the elements providers.ts holds, and window.onbeforeunload
  metamask,       \* window.ethereum is present
  wagmiProvider,  \* the module's provider handle
  me,             \* the promise of the bootstrap request GET /api/me:
                  \* "pending", "fulfilled" (answered) or "rejected"
  attempts,       \* bag of the sign-in attempts in progress
  saves,          \* bag of the PUT /api/save requests in flight
  signOuts,       \* number of POST /api/sign_out requests in flight
  alertOpen,      \* alert() is showing its dialog: the event loop is blocked
  signOutRun      \* observer: the sign-out calls made in succession, and how
                  \* many of them have resolved (reset by any other handler)

vars == << dom, metamask, wagmiProvider, me, attempts, saves, signOuts,
           alertOpen, signOutRun >>

\* The page as index.html delivers it, before the bootstrap has resolved: no
\* affordance is shown, the title is "Untitled" and the notepad is empty.
InitialPage ==
  [ metamaskHidden      |-> TRUE,
    walletConnectHidden |-> TRUE,
    closeDisabled       |-> TRUE,
    closeBound          |-> FALSE,   \* closeButton has the click listener signOut
    saveHidden          |-> TRUE,
    disconnectHidden    |-> TRUE,
    saveBound           |-> FALSE,   \* saveButton has the click listener save
    saveDisabled        |-> FALSE,
    unsaved             |-> "",
    onbeforeunload      |-> FALSE,   \* window.onbeforeunload is a handler
    notepad             |-> TextEmpty,
    title               |-> "Untitled" ]

\* a ?? b
Coalesce(a, b) == IF a \in {Null, Undefined} THEN b ELSE a

\* A string in a condition: the empty string is falsy.
Truthy(text) == text # TextEmpty

updateTitle(d, text) == [d EXCEPT !.title = text]

updateUnsavedChanges(d, text) == [d EXCEPT !.unsaved = text]

updateNotepad(d, text) == [d EXCEPT !.notepad = text]

blockSave(d) ==
  [updateUnsavedChanges(d, "") EXCEPT !.saveBound = FALSE,
                                      !.saveDisabled = TRUE,
                                      !.onbeforeunload = FALSE]

enableSave(d) ==
  [updateUnsavedChanges(d, UnsavedMark) EXCEPT !.saveBound = TRUE,
                                               !.saveDisabled = FALSE,
                                               !.onbeforeunload = TRUE]

\* connectedState without its call of blockSave.
connectedStateKeepingDirty(d, text, address, ens) ==
  LET shown == [d EXCEPT !.metamaskHidden = TRUE,
                         !.walletConnectHidden = TRUE,
                         !.closeBound = TRUE,
                         !.closeDisabled = FALSE,
                         !.saveHidden = FALSE,
                         !.disconnectHidden = FALSE]
      filled == IF Truthy(text) THEN updateNotepad(shown, text) ELSE shown
  IN  updateTitle(filled, Coalesce(ens, address))

\* connectedState without the line that hides the WalletConnect button.
connectedStateKeepingButton(d, text, address, ens) ==
  LET shown == [d EXCEPT !.metamaskHidden = TRUE,
                         !.closeBound = TRUE,
                         !.closeDisabled = FALSE,
                         !.saveHidden = FALSE,
                         !.disconnectHidden = FALSE]
      filled == IF Truthy(text) THEN updateNotepad(shown, text) ELSE shown
  IN  updateTitle(blockSave(filled), Coalesce(ens, address))

connectedState(d, text, address, ens) ==
  LET shown == [d EXCEPT !.metamaskHidden = TRUE,
                         !.walletConnectHidden = TRUE,
                         !.closeBound = TRUE,
                         !.closeDisabled = FALSE,
                         !.saveHidden = FALSE,
                         !.disconnectHidden = FALSE]
      filled == IF Truthy(text) THEN updateNotepad(shown, text) ELSE shown
  IN  updateTitle(blockSave(filled), Coalesce(ens, address))

\* disconnectedState with classList.toggle in place of add and remove.
disconnectedStateToggling(d) ==
  [d EXCEPT !.metamaskHidden = ~@,
            !.walletConnectHidden = ~@,
            !.closeBound = FALSE,
            !.closeDisabled = TRUE,
            !.saveHidden = ~@,
            !.disconnectHidden = ~@]

\* typeof metamask !== undefined compares a string with undefined: always true.
disconnectedState(d) ==
  [d EXCEPT !.metamaskHidden = FALSE,
            !.walletConnectHidden = FALSE,
            !.closeBound = FALSE,
            !.closeDisabled = TRUE,
            !.saveHidden = TRUE,
            !.disconnectHidden = TRUE]

\* The states of the UI, by the affordances shown.
Connected(d) ==
  /\ ~d.disconnectHidden /\ ~d.saveHidden /\ ~d.closeDisabled
  /\ d.metamaskHidden /\ d.walletConnectHidden

Disconnected(d) ==
  /\ d.disconnectHidden /\ d.saveHidden /\ d.closeDisabled
  /\ ~d.walletConnectHidden

\* The document shows as unsaved: the indicator, the enabled save, the guard.
Dirty(d) ==
  /\ d.unsaved = UnsavedMark /\ d.saveBound /\ ~d.saveDisabled
  /\ d.onbeforeunload

Clean(d) ==
  /\ d.unsaved = "" /\ ~d.saveBound /\ d.saveDisabled /\ ~d.onbeforeunload

(***************************************************************************)
(* The flows in flight.                                                    *)
(***************************************************************************)
Put(bag, e) == bag (+) SetToBag({e})

Take(bag, e) == bag (-) SetToBag({e})

\* The bag with every element e replaced by F(e).
BagMap(F(_), bag) ==
  [x \in {F(e) : e \in DOMAIN bag} |->
     BagCardinality([e \in {y \in DOMAIN bag : F(y) = x} |-> bag[e]])]

InFlight == BagCardinality(attempts) + BagCardinality(saves) + signOuts

\* The nonces the backend may issue: as many names as attempts can be in
\* progress together.
Nonces == 1 .. MaxInFlight

\* A sign-in attempt: where it waits, its local const nonce (0 before GET
\* /api/nonce has answered), and two history fields:
\*   fromDisconnected  the UI was Disconnected when the attempt began
\*   signerLost        the signer-change observer reported no signer while
\*                     the attempt waited for the answer of /api/sign_in
Attempt(pc, d) ==
  [pc |-> pc, nonce |-> 0,
   fromDisconnected |-> Disconnected(d), signerLost |-> FALSE]

At(a, pc) == [a EXCEPT !.pc = pc]

\* A save request, with two history fields:
\*   edited     the user has typed since the request was sent
\*   signedOut  a sign-out has completed since the request was sent
SaveRequest == [edited |-> FALSE, signedOut |-> FALSE]

\* The answers of the backend to /api/me and /api/sign_in with status 200.
Payloads ==
  [text : ServerTexts, address : {Address}, ens : {Null, "", EnsName}]

\* 200, and one status that is not.
Statuses == {200, 401}

NoRun == [calls |-> 0, resolved |-> 0]

Init ==
  /\ dom = [InitialPage EXCEPT !.saveBound = TRUE]
  /\ metamask \in BOOLEAN
  /\ wagmiProvider = Undefined
  /\ me = "pending"
  /\ attempts = EmptyBag
  /\ saves = EmptyBag
  /\ signOuts = 0
  /\ alertOpen = FALSE
  /\ signOutRun = NoRun

\* A handler runs only while no alert dialog blocks the event loop; every
\* handler but those of a sign-out ends the observed run of sign-outs.
Handler == ~alertOpen /\ signOutRun' = NoRun

(***************************************************************************)
(* Bootstrap: the answer to GET /api/me.                                   *)
(***************************************************************************)
MeResponse(status, payload) ==
  /\ Handler
  /\ me = "pending"
  /\ me' = "fulfilled"
  /\ dom' = IF status = 200
              THEN connectedState(dom, payload.text, payload.address, payload.ens)
              ELSE disconnectedState(dom)
  /\ UNCHANGED << metamask, wagmiProvider, attempts, saves, signOuts, alertOpen >>

\* The request fails at the transport level: the promise rejects, no handler.
MeFailed ==
  /\ Handler
  /\ me = "pending"
  /\ me' = "rejected"
  /\ UNCHANGED << dom, metamask, wagmiProvider, attempts, saves, signOuts, alertOpen >>

(***************************************************************************)
(* Connecting and signing in.                                              *)
(***************************************************************************)
\* signIn(provider) up to its first await, provider.listAccounts().
signIn == 
  /\ InFlight < MaxInFlight
  /\ attempts' = Put(attempts, Attempt("accounts", dom))

\* web3Modal.openModal(): the modal is the wallet library's own.
openModal == UNCHANGED << wagmiProvider, attempts >>

\* connect(connector) up to its first await.
connect(connector) ==
  /\ Handler
  /\ IF connector = "metamask" /\ metamask
       THEN /\ InFlight < MaxInFlight
            /\ attempts' = Put(attempts, Attempt("request", dom))
            /\ UNCHANGED wagmiProvider
       ELSE openModal
  /\ UNCHANGED << dom, metamask, me, saves, signOuts, alertOpen >>

ClickMetamask == ~dom.metamaskHidden /\ connect("metamask")

ClickWalletConnect == ~dom.walletConnectHidden /\ connect("walletconnect")

\* eth_requestAccounts is granted: connect goes on and calls signIn.
RequestAccountsResolved(a) ==
  /\ Handler
  /\ a.pc = "request"
  /\ wagmiProvider' = "Web3Provider"
  /\ attempts' = Put(Take(attempts, a), At(a, "accounts"))
  /\ UNCHANGED << dom, metamask, me, saves, signOuts, alertOpen >>

\* The user declines: connect rejects.
RequestAccountsRejected(a) ==
  /\ Handler
  /\ a.pc = "request"
  /\ attempts' = Take(attempts, a)
  /\ UNCHANGED << dom, metamask, wagmiProvider, me, saves, signOuts, alertOpen >>

\* The watchSigner callback showing the connected state as soon as a signer is
\* there, before the backend has verified anything.
SignerChangedTrustingWallet(signer) ==
  /\ Handler
  /\ IF signer
       THEN /\ wagmiProvider' = "signer.provider"
            /\ signIn
            /\ dom' = connectedState(dom, TextEmpty, Address, Null)
       ELSE /\ wagmiProvider' = Undefined
            /\ UNCHANGED << attempts, dom >>
  /\ UNCHANGED << metamask, me, saves, signOuts, alertOpen >>

\* The watchSigner callback.
SignerChanged(signer) ==
  /\ Handler
  /\ IF signer
       THEN /\ wagmiProvider' = "signer.provider"
            /\ signIn
       ELSE /\ wagmiProvider' = Undefined
            /\ attempts' = BagMap(LAMBDA a : IF a.pc = "verify"
                                               THEN [a EXCEPT !.signerLost = TRUE]
                                               ELSE a, attempts)
  /\ UNCHANGED << dom, metamask, me, saves, signOuts, alertOpen >>

\* provider.listAccounts() answers with an address.
ListAccountsResolved(a) ==
  /\ Handler
  /\ a.pc = "accounts"
  /\ attempts' = Put(Take(attempts, a), At(a, "ens"))
  /\ UNCHANGED << dom, metamask, wagmiProvider, me, saves, signOuts, alertOpen >>

\* provider.lookupAddress(address) answers ens (a name; "" stands for null and
\* for a lookup that throws); the title is updated and the nonce is fetched.
LookupAddressResolved(a, ens) ==
  /\ Handler
  /\ a.pc = "ens"
  /\ dom' = updateTitle(dom, Coalesce(ens, Address))
  /\ attempts' = Put(Take(attempts, a), At(a, "nonce"))
  /\ UNCHANGED << metamask, wagmiProvider, me, saves, signOuts, alertOpen >>

\* The nonces held by the attempts in progress.
HeldNonces == {b.nonce : b \in BagToSet(attempts)} \ {0}

\* The backend issues a nonce it has not issued before: here the first name
\* that no attempt in progress holds (a name stands for a new nonce once the
\* attempt that held it has ended).
Fresh(nonce) ==
  nonce \in Nonces \ HeldNonces /\ \A n \in Nonces \ HeldNonces : nonce <= n

\* The name of a nonce where nonces are not told apart: under Spec, where no
\* handler but signIn's own steps reads the nonce, every answer of GET
\* /api/nonce goes by this name; SpecNonce tells the nonces apart.
SomeNonce == CHOOSE n \in Nonces : \A m \in Nonces : n <= m

\* GET /api/nonce answering nonce, with the nonce kept in a variable of the
\* module and fetched only when there is none: an attempt that finds the
\* nonce of another attempt uses it.
NonceResolvedCaching(a, nonce) ==
  /\ Handler
  /\ a.pc = "nonce"
  /\ LET cached == IF HeldNonces = {} THEN nonce ELSE CHOOSE n \in HeldNonces : TRUE
     IN  attempts' = Put(Take(attempts, a),
                         [At(a, "network") EXCEPT !.nonce = cached])
  /\ UNCHANGED << dom, metamask, wagmiProvider, me, saves, signOuts, alertOpen >>

\* GET /api/nonce answers nonce.
NonceResolved(a, nonce) ==
  /\ Handler
  /\ a.pc = "nonce"
  /\ attempts' = Put(Take(attempts, a), [At(a, "network") EXCEPT !.nonce = nonce])
  /\ UNCHANGED << dom, metamask, wagmiProvider, me, saves, signOuts, alertOpen >>

\* provider.getNetwork() answers: the message is built, the signature asked.
NetworkResolved(a) ==
  /\ Handler
  /\ a.pc = "network"
  /\ attempts' = Put(Take(attempts, a), At(a, "sign"))
  /\ UNCHANGED << dom, metamask, wagmiProvider, me, saves, signOuts, alertOpen >>

\* The wallet signs: POST /api/sign_in is sent.
SignMessageResolved(a) ==
  /\ Handler
  /\ a.pc = "sign"
  /\ attempts' = Put(Take(attempts, a), At(a, "verify"))
  /\ UNCHANGED << dom, metamask, wagmiProvider, me, saves, signOuts, alertOpen >>

\* An awaited step rejects, or listAccounts answers no address: signIn throws.
SignInThrows(a) ==
  /\ Handler
  /\ a.pc \in {"accounts", "nonce", "network", "sign"}
  /\ attempts' = Take(attempts, a)
  /\ UNCHANGED << dom, metamask, wagmiProvider, me, saves, signOuts, alertOpen >>

\* The answer to POST /api/sign_in.
SignInResponse(a, status, payload) ==
  /\ Handler
  /\ a.pc = "verify"
  /\ attempts' = Take(attempts, a)
  /\ dom' = IF status = 200
              THEN connectedState(dom, payload.text, payload.address, payload.ens)
              ELSE dom
  /\ UNCHANGED << metamask, wagmiProvider, me, saves, signOuts, alertOpen >>

\* POST /api/sign_in fails at the transport level.
SignInFailed(a) ==
  /\ Handler
  /\ a.pc = "verify"
  /\ attempts' = Take(attempts, a)
  /\ UNCHANGED << dom, metamask, wagmiProvider, me, saves, signOuts, alertOpen >>

(***************************************************************************)
(* Signing out.                                                            *)
(***************************************************************************)
\* signOut() up to the fetch of POST /api/sign_out.
signOut ==
  /\ ~alertOpen
  /\ InFlight < MaxInFlight
  /\ dom' = updateNotepad(updateTitle(dom, "Untitled"), TextEmpty)
  /\ signOuts' = signOuts + 1
  /\ signOutRun' = IF signOuts = 0 THEN [calls |-> 1, resolved |-> 0]
                   ELSE IF signOutRun.calls >= 1 /\ signOutRun.resolved = 0
                     THEN [signOutRun EXCEPT !.calls = @ + 1]
                     ELSE NoRun
  /\ UNCHANGED << metamask, wagmiProvider, me, attempts, saves, alertOpen >>

ClickDisconnect == ~dom.disconnectHidden /\ signOut

ClickClose == ~dom.closeDisabled /\ dom.closeBound /\ signOut

\* POST /api/sign_out is answered, with whatever status.
SignOutResponse ==
  /\ ~alertOpen
  /\ signOuts > 0
  /\ signOuts' = signOuts - 1
  /\ dom' = disconnectedState(dom)
  /\ saves' = BagMap(LAMBDA r : [r EXCEPT !.signedOut = TRUE], saves)
  /\ signOutRun' = IF signOutRun.calls >= 1
                     THEN [signOutRun EXCEPT !.resolved = @ + 1]
                     ELSE NoRun
  /\ UNCHANGED << metamask, wagmiProvider, me, attempts, alertOpen >>

\* POST /api/sign_out fails at the transport level: the promise rejects.
SignOutFailed ==
  /\ ~alertOpen
  /\ signOuts > 0
  /\ signOuts' = signOuts - 1
  /\ signOutRun' = NoRun
  /\ UNCHANGED << dom, metamask, wagmiProvider, me, attempts, saves, alertOpen >>

(***************************************************************************)
(* Editing and saving.                                                     *)
(***************************************************************************)
\* The user changes the text of the notepad: the input event runs enableSave.
Input(text) ==
  /\ Handler
  /\ text # dom.notepad
  /\ dom' = enableSave(updateNotepad(dom, text))
  /\ saves' = BagMap(LAMBDA r : [r EXCEPT !.edited = TRUE], saves)
  /\ UNCHANGED << metamask, wagmiProvider, me, attempts, signOuts, alertOpen >>

\* save with the bound compared to the string's length, not its byte length.
saveComparingLength ==
  LET text == dom.notepad IN
  /\ Handler
  /\ IF length(JSONstringify(text)) > 43610
       THEN /\ alertOpen' = TRUE
            /\ UNCHANGED saves
       ELSE /\ InFlight < MaxInFlight
            /\ saves' = Put(saves, SaveRequest)
            /\ UNCHANGED alertOpen
  /\ UNCHANGED << dom, metamask, wagmiProvider, me, attempts, signOuts >>

\* save(e) up to the fetch of PUT /api/save.
save ==
  LET text == dom.notepad IN
  /\ Handler
  /\ IF byteLength(JSONstringify(text)) > 43610
       THEN /\ alertOpen' = TRUE
            /\ UNCHANGED saves
       ELSE /\ InFlight < MaxInFlight
            /\ saves' = Put(saves, SaveRequest)
            /\ UNCHANGED alertOpen
  /\ UNCHANGED << dom, metamask, wagmiProvider, me, attempts, signOuts >>

ClickSave == ~dom.saveHidden /\ dom.saveBound /\ save

\* Mousetrap's mod+s: save(e), whatever the page shows.
HotkeySave == TRUE /\ save

\* The user closes the alert dialog: save returns.
DismissAlert ==
  /\ alertOpen
  /\ alertOpen' = FALSE
  /\ UNCHANGED << dom, metamask, wagmiProvider, me, attempts, saves, signOuts,
                  signOutRun >>

\* PUT /api/save is answered, with whatever status.
SaveResponse(r, status) ==
  /\ Handler
  /\ BagIn(r, saves)
  /\ status \in Statuses
  /\ saves' = Take(saves, r)
  /\ dom' = blockSave(dom)
  /\ UNCHANGED << metamask, wagmiProvider, me, attempts, signOuts, alertOpen >>

\* PUT /api/save fails at the transport level: the promise rejects.
SaveFailed(r) ==
  /\ Handler
  /\ BagIn(r, saves)
  /\ saves' = Take(saves, r)
  /\ UNCHANGED << dom, metamask, wagmiProvider, me, attempts, signOuts, alertOpen >>

(***************************************************************************)
(* The specification.                                                      *)
(***************************************************************************)
Bootstrap ==
  \/ \E status \in Statuses, payload \in Payloads : MeResponse(status, payload)
  \/ MeFailed

Wallet ==
  \/ ClickMetamask
  \/ ClickWalletConnect
  \/ \E signer \in BOOLEAN : SignerChanged(signer)

SignInSteps ==
  \/ \E a \in BagToSet(attempts) : RequestAccountsResolved(a)
  \/ \E a \in BagToSet(attempts) : RequestAccountsRejected(a)
  \/ \E a \in BagToSet(attempts) : ListAccountsResolved(a)
  \/ \E a \in BagToSet(attempts), ens \in {"", EnsName} :
       LookupAddressResolved(a, ens)
  \/ \E a \in BagToSet(attempts) : NonceResolved(a, SomeNonce)
  \/ \E a \in BagToSet(attempts) : NetworkResolved(a)
  \/ \E a \in BagToSet(attempts) : SignMessageResolved(a)
  \/ \E a \in BagToSet(attempts) : SignInThrows(a)
  \/ \E a \in BagToSet(attempts), status \in Statuses, payload \in Payloads :
       SignInResponse(a, status, payload)
  \/ \E a \in BagToSet(attempts) : SignInFailed(a)

Editing ==
  \/ \E text \in Texts : Input(text)
  \/ ClickSave
  \/ HotkeySave
  \/ \E r \in BagToSet(saves), status \in Statuses : SaveResponse(r, status)
  \/ \E r \in BagToSet(saves) : SaveFailed(r)

SigningOut ==
  \/ ClickDisconnect
  \/ ClickClose
  \/ SignOutResponse
  \/ SignOutFailed

Next ==
  \/ Bootstrap
  \/ Wallet
  \/ SignInSteps
  \/ Editing
  \/ SigningOut
  \/ DismissAlert

Spec == Init /\ [][Next]_vars

\* The sign-in protocol with the nonces told apart: the handlers that read or
\* write the attempts or the controls a sign-in starts from (the editor's
\* handlers do neither), with the backend answering GET /api/nonce by a nonce
\* it has not issued before.
SignInStepsFresh ==
  \/ \E a \in BagToSet(attempts) : RequestAccountsResolved(a)
  \/ \E a \in BagToSet(attempts) : RequestAccountsRejected(a)
  \/ \E a \in BagToSet(attempts) : ListAccountsResolved(a)
  \/ \E a \in BagToSet(attempts), ens \in {"", EnsName} :
       LookupAddressResolved(a, ens)
  \/ \E a \in BagToSet(attempts), nonce \in Nonces :
       Fresh(nonce) /\ NonceResolved(a, nonce)
  \/ \E a \in BagToSet(attempts) : NetworkResolved(a)
  \/ \E a \in BagToSet(attempts) : SignMessageResolved(a)
  \/ \E a \in BagToSet(attempts) : SignInThrows(a)
  \/ \E a \in BagToSet(attempts), status \in Statuses, payload \in Payloads :
       SignInResponse(a, status, payload)
  \/ \E a \in BagToSet(attempts) : SignInFailed(a)

NextNonce ==
  \/ Bootstrap
  \/ Wallet
  \/ SignInStepsFresh
  \/ SigningOut

SpecNonce == Init /\ [][NextNonce]_vars

(***************************************************************************)
(* The claims.                                                             *)
(***************************************************************************)
\* What shows the document as saved or unsaved.
DirtyState(d) == << d.unsaved, d.saveBound, d.saveDisabled, d.onbeforeunload >>

\* One of the affordances of the Connected state is shown.
ConnectedAffordance(d) ==
  ~d.disconnectHidden \/ ~d.saveHidden \/ ~d.closeDisabled

\* C1: for every notepad text, a call of save() sends PUT /api/save if and
\* only if the JSON-serialized payload {text} is at most 43,610 bytes long;
\* when it is longer, save() alerts, sends nothing and leaves the dirty state
\* as it is.
C1_SaveSendsIffWithinBound ==
  [][save =>
       LET bytes == byteLength(JSONstringify(dom.notepad)) IN
       /\ (BagCardinality(saves') = BagCardinality(saves) + 1)
            <=> (bytes <= MaxPayloadBytes)
       /\ (bytes > MaxPayloadBytes) =>
            /\ alertOpen'
            /\ saves' = saves
            /\ DirtyState(dom') = DirtyState(dom)]_vars

\* C1, its case: a save of the text that is one byte over the bound has
\* been refused with an alert, while an earlier save is in flight.
C1_Witness ==
  /\ alertOpen
  /\ dom.notepad = TextOverLimit
  /\ BagCardinality(saves) = 1
  /\ Dirty(dom)

\* C2: a save whose request fails, by a non-success status or at the
\* transport level, never clears the dirty flag.
C2_FailedSaveKeepsDirty ==
  [][\A r \in BagToSet(saves) :
       (Connected(dom) /\ Dirty(dom) /\ (SaveResponse(r, 401) \/ SaveFailed(r)))
         => Dirty(dom')]_vars

\* C3: when the user has edited the notepad after a save request was sent,
\* the completion of that save with 200 leaves the document dirty.
C3_EditsAfterSendStayDirty ==
  [][\A r \in BagToSet(saves) :
       (Connected(dom) /\ r.edited /\ SaveResponse(r, 200)) => Dirty(dom')]_vars

\* C4: a save response that arrives after the sign-out has completed changes
\* no UI state.
C4_StaleSaveResponseIgnored ==
  [][\A r \in BagToSet(saves), status \in Statuses :
       (r.signedOut /\ SaveResponse(r, status))
         => DirtyState(dom') = DirtyState(dom)]_vars

\* C5: when the signer-change observer has reported no signer while a
\* sign-in, begun with the UI Disconnected, waited for its verify response,
\* the response that arrives afterwards is discarded: it does not move the UI
\* to Connected.
C5_LostSignerDiscardsVerify ==
  [][\A a \in BagToSet(attempts), payload \in Payloads :
       (a.fromDisconnected /\ a.signerLost /\ SignInResponse(a, 200, payload))
         => ~Connected(dom')]_vars

\* C6: a sign-in attempt started from Disconnected leaves the UI, when its
\* verify response resolves, Connected-Clean if the response is 200 and
\* Disconnected otherwise.
C6_SignInEndsConnectedOrDisconnected ==
  [][\A a \in BagToSet(attempts), status \in Statuses, payload \in Payloads :
       (a.fromDisconnected /\ SignInResponse(a, status, payload))
         => IF status = 200
              THEN Connected(dom') /\ Clean(dom')
              ELSE Disconnected(dom')]_vars

\* C7: a sign-out ends with the UI Disconnected, also when POST
\* /api/sign_out fails at the transport level.
C7_SignOutAlwaysDisconnects ==
  [][(signOuts = 1 /\ (SignOutResponse \/ SignOutFailed))
       => Disconnected(dom')]_vars

\* C8: sign-out calls made in succession, once all of them have resolved,
\* leave the same end state whether one call was made or several: the UI
\* Disconnected, the title "Untitled", the notepad empty.
C8_SignOutIdempotent ==
  (signOutRun.calls >= 1 /\ signOutRun.resolved = signOutRun.calls)
    => /\ Disconnected(dom)
       /\ dom.title = "Untitled"
       /\ dom.notepad = TextEmpty

\* C8, its case: two sign-out calls in succession, both resolved.
C8_Witness == signOutRun = [calls |-> 2, resolved |-> 2]

\* C9: at most one sign-in attempt is in progress at any time: while an
\* attempt begun with the UI Disconnected is in progress, no second attempt
\* is in progress.
C9_OneAttemptAtATime ==
  (\E a \in BagToSet(attempts) : a.fromDisconnected)
    => BagCardinality(attempts) <= 1

\* C10: an affordance of the Connected state comes to be shown only by the
\* handling of a 200 response of /api/sign_in or /api/me.
C10_ConnectedOnlyBy200 ==
  [][(~ConnectedAffordance(dom) /\ ConnectedAffordance(dom'))
       => \/ \E payload \in Payloads : MeResponse(200, payload)
          \/ \E a \in BagToSet(attempts), payload \in Payloads :
               SignInResponse(a, 200, payload)]_vars

\* C10, its case: the UI is Connected by a sign-in verified while the
\* bootstrap request is still pending.
C10_Witness == Connected(dom) /\ me = "pending" /\ wagmiProvider # Undefined

\* C11: when the bootstrap request resolves, the UI is Connected-Clean if
\* GET /api/me answered 200 and Disconnected in every other case, a failure
\* at the transport level included.
C11_BootstrapResolvesUI ==
  [][/\ \A payload \in Payloads :
          MeResponse(200, payload) => Connected(dom') /\ Clean(dom')
     /\ \A payload \in Payloads :
          (MeResponse(401, payload) \/ MeFailed) => Disconnected(dom')]_vars

\* The handling of a 200 response carrying payload: of GET /api/me, or of the
\* POST /api/sign_in of some attempt.
Response200(payload) ==
  \/ MeResponse(200, payload)
  \/ \E a \in BagToSet(attempts) : SignInResponse(a, 200, payload)

\* C12: when the UI enters Connected from a 200 response carrying {text,
\* address, ens}, the notepad holds the returned text, whatever it held
\* before and also when the returned text is empty, and the document is clean.
C12_NotepadIsReturnedText ==
  [][\A payload \in Payloads :
       Response200(payload)
         => /\ dom'.notepad = payload.text
            /\ Clean(dom')]_vars

\* The title the claims expect for an address with the ENS name ens.
ExpectedTitle(ens, address) == IF ens \in {Null, Undefined, ""} THEN address ELSE ens

\* C13: the title is the ENS name when a non-empty one is available and the
\* address otherwise, after the ENS lookup of a sign-in as after a 200
\* response.
C13_TitleIsEnsOrAddress ==
  [][/\ \A a \in BagToSet(attempts), ens \in {"", EnsName} :
          LookupAddressResolved(a, ens)
            => dom'.title = ExpectedTitle(ens, Address)
     /\ \A payload \in Payloads :
          Response200(payload)
            => dom'.title = ExpectedTitle(payload.ens, payload.address)]_vars

\* A connect button is shown.
ConnectAffordance(d) == ~d.metamaskHidden \/ ~d.walletConnectHidden

\* C14: the affordances of Disconnected and of Connected are never shown
\* together; and once the bootstrap request has been answered, the connect
\* buttons are shown if and only if the disconnect and save controls are
\* hidden and the close button is disabled.
C14_OneStateShown ==
  /\ ~(ConnectAffordance(dom) /\ ConnectedAffordance(dom))
  /\ me = "fulfilled"
       => /\ ConnectAffordance(dom)
               <=> (dom.disconnectHidden /\ dom.saveHidden /\ dom.closeDisabled)
          /\ Connected(dom) \/ Disconnected(dom)

\* C14, its case: the bootstrap was answered, the UI has been Connected and
\* a sign-out has put it back to Disconnected.
C14_Witness ==
  me = "fulfilled" /\ Disconnected(dom) /\ signOutRun.resolved >= 1

\* C15: the unload guard is installed only while the UI is Connected and the
\* document dirty: never while the UI is Disconnected, nor while it is
\* Connected with no unsaved indicator.
C15_GuardOnlyConnectedDirty ==
  (Disconnected(dom) \/ (Connected(dom) /\ dom.unsaved = ""))
    => ~dom.onbeforeunload

\* C16: when no injected provider is present, the metamask button is hidden
\* in every state after load.
C16_MetamaskHiddenWithoutProvider == ~metamask => dom.metamaskHidden

\* C18: the save hotkey sends PUT /api/save only where a click on the save
\* button would: while the UI is Connected and the document dirty.
C18_HotkeySavesLikeClick ==
  [][((Connected(dom) \/ Disconnected(dom))
        /\ HotkeySave
        /\ BagCardinality(saves') > BagCardinality(saves))
       => (Connected(dom) /\ Dirty(dom))]_vars

\* C20: when a sign-in has made the UI Connected before the non-200 answer
\* of GET /api/me is handled, the UI stays Connected when it is handled.
C20_LateBootstrapKeepsSession ==
  [][\A payload \in Payloads :
       (Connected(dom) /\ MeResponse(401, payload)) => Connected(dom')]_vars

\* The attempt was begun by the watchSigner callback: the connect buttons are
\* shown only while the UI is Disconnected, so an attempt begun in another
\* state of the UI was not begun by a click.
BySignerChange(a) == ~a.fromDisconnected

NonceStages == {"network", "sign", "verify"}

\* How many attempts of bag hold nonce n while waiting at one of pcs.
Holding(bag, pcs, n) ==
  LET held == {b \in BagToSet(bag) : b.pc \in pcs /\ b.nonce = n}
  IN  BagCardinality([b \in held |-> bag[b]])

\* C17: within a sign-in attempt the steps are strictly ordered and a nonce is
\* single-use. After every step, an attempt holds a nonce exactly when it has
\* passed the answer of GET /api/nonce, and no nonce is held by two attempts;
\* an attempt receives only a nonce that no attempt holds; the signature is
\* requested only by the attempt that holds the nonce and waited for the
\* network, and POST /api/sign_in is sent only by the attempt that holds the
\* nonce and waited for the signature, which then no longer waits for it: a
\* nonce is submitted once.
C17_OrderedStepsSingleUseNonce ==
  [][ /\ \A b \in BagToSet(attempts') : (b.pc \in NonceStages) <=> (b.nonce # 0)
      /\ \A n \in Nonces :
           /\ Holding(attempts', NonceStages, n) <= 1
           /\ Holding(attempts', {"network"}, n) > Holding(attempts, {"network"}, n)
                => Holding(attempts, NonceStages, n) = 0
           /\ Holding(attempts', {"sign"}, n) > Holding(attempts, {"sign"}, n)
                => /\ Holding(attempts, {"network"}, n) = 1
                   /\ Holding(attempts', {"network"}, n) = 0
           /\ Holding(attempts', {"verify"}, n) > Holding(attempts, {"verify"}, n)
                => /\ Holding(attempts, {"sign"}, n) = 1
                   /\ Holding(attempts', {"sign"}, n) = 0
    ]_vars

\* Two attempts in progress, each with a nonce of its own, one of them with
\* POST /api/sign_in sent.
C17_Witness ==
  \E a, b \in BagToSet(attempts) :
    /\ a.pc = "verify"
    /\ b.pc \in NonceStages
    /\ a.nonce # 0
    /\ b.nonce # 0
    /\ a.nonce # b.nonce

====
